---------------------------- MODULE Spec2Model ----------------------------
(***************************************************************************)
(* Model of youtube_dl/downloader/fragment.py (class FragmentFD): the      *)
(* resumable fragment download.  The disk (temp output, resume sidecar,    *)
(* per-fragment temp files, final output) survives a process interruption; *)
(* the download context ctx and the progress state do not.                 *)
(*                                                                         *)
(* The control loop that calls FragmentFD (fetch / retry / skip) and the   *)
(* HTTP transport behind ctx['dl'].download are not part of fragment.py;   *)
(* they follow sections 4.3 and 4.5 of the specification.                  *)
(***************************************************************************)
EXTENDS Integers, Naturals, Sequences, FiniteSets, TLC

\* ---- bounds of the model ------------------------------------------------
MaxFrags == 3
MaxFragSize == 2
MaxRetries == 1
MaxInterrupts == 1
MaxFailures == 2

\* an absent value (no file name, no content, no number)
None == 0 - 1

VARIABLES
    \* configuration and inputs
    total_frags,        \* ctx['total_frags']
    frag_size,          \* size in bytes of each fragment of the manifest
    live,               \* ctx['live']
    to_stdout,          \* the output is '-': ctx['tmpfilename'] == '-'
    keep_fragments,     \* params['keep_fragments']
    skip_unavailable_fragments,
    fragment_retries,
    stream_kind,        \* what dest_stream is: see StreamKinds
    \* disk
    tmp_exists,         \* the temp output file exists
    tmp_content,        \* its content: the bytes written, in order, as pieces
    ytdl_exists,        \* the resume sidecar exists
    ytdl_file,          \* its content (the decoded JSON document)
    ytdl_empty,         \* the sidecar holds no whole document
    frag_files,         \* per-fragment temp files: <<index in name, fragment>>
    final_exists,       \* the final output file exists
    final_content,
    \* the session (lost on interruption)
    pc,
    open_mode,
    resume_len,
    ctx_fragment_index,             \* ctx['fragment_index']
    ctx_complete_frags_downloaded_bytes,
    ctx_prev_frag_downloaded_bytes,
    ctx_fragment_filename_sanitized,
    dest_stream_open,
    state_downloaded_bytes,         \* state['downloaded_bytes']
    state_fragment_index,           \* state['fragment_index']
    fragment_filename,              \* index in the name '<tmp>-Frag<index>'
    frag_content,                   \* the bytes read back from the fragment file
    write_failed,                   \* dest_stream.write raised
    snapshot,                       \* last snapshot given to _hook_progress
    frag_index,                     \* the control loop's fragment index
    count,                          \* failed attempts of the current fragment
    attempts,                       \* fetch attempts of the current fragment
    notices,                        \* retry notices of the current fragment
    \* history
    interrupts,         \* times a session was cut short and the command run again
    failures,           \* number of failed fetches and refused writes so far
    cut_inside,         \* a kill fell inside an append, a finish or a sidecar write
    io_fault,           \* the device refused bytes of a write in some session
    any_skip,           \* some session skipped a fragment
    skipped,            \* fragments skipped by the current session
    appended,           \* fragments appended by the current session
    start_index,        \* fragment index the current session started at
    last_init_error,    \* how the Init of an earlier session failed, if one did
    stream_buffer,      \* bytes written to dest_stream, not yet in the file
    stream_fresh,       \* nothing was written to dest_stream yet
    part_bytes,         \* bytes of the fragment in flight the transport holds
    frag_start_bytes    \* state['downloaded_bytes'] when the fragment began

disk == <<tmp_exists, tmp_content, ytdl_exists, ytdl_file, ytdl_empty, frag_files,
          final_exists, final_content>>
config == <<total_frags, frag_size, live, to_stdout, keep_fragments,
            skip_unavailable_fragments, fragment_retries, stream_kind>>
progress == <<ctx_complete_frags_downloaded_bytes, ctx_prev_frag_downloaded_bytes,
              state_downloaded_bytes, state_fragment_index, snapshot>>
retry == <<count, attempts, notices>>
history == <<interrupts, failures, cut_inside, io_fault, any_skip, skipped, appended,
             start_index, last_init_error>>
fetch == <<fragment_filename, frag_content, ctx_fragment_filename_sanitized,
           write_failed>>
session == <<pc, open_mode, resume_len, ctx_fragment_index, dest_stream_open,
             frag_index>>
track == <<part_bytes, frag_start_bytes>>
stream == <<stream_buffer, stream_fresh>>
vars == <<config, disk, session, fetch, progress, retry, history, track,
          stream>>

\* ---- pure helpers -------------------------------------------------------

\* File content and stream data are sequences of pieces <<k, off, n>>: the n
\* bytes of fragment k that start at its byte off.

\* the bytes of fragment k, as line 76 reads them back from its file
FragmentBytes(k) == << <<k, 0, frag_size[k]>> >>

RECURSIVE ByteLength(_)
\* len() of a piece sequence; os.path.getsize of a file holding it
ByteLength(data) ==
    IF data = <<>> THEN 0
    ELSE Head(data)[3] + ByteLength(Tail(data))

RECURSIVE FirstBytes(_, _)
\* data[:m]
FirstBytes(data, m) ==
    IF m <= 0 \/ data = <<>> THEN <<>>
    ELSE IF Head(data)[3] <= m
           THEN <<Head(data)>> \o FirstBytes(Tail(data), m - Head(data)[3])
           ELSE << <<Head(data)[1], Head(data)[2], m>> >>

RECURSIVE RestBytes(_, _)
\* data[m:]
RestBytes(data, m) ==
    IF m <= 0 \/ data = <<>> THEN data
    ELSE IF Head(data)[3] <= m
           THEN RestBytes(Tail(data), m - Head(data)[3])
           ELSE << <<Head(data)[1], Head(data)[2] + m, Head(data)[3] - m>> >>
                   \o Tail(data)

\* a + b; two pieces that continue each other become one
Joined(a, b) ==
    IF a = <<>> THEN b
    ELSE IF b = <<>> THEN a
    ELSE LET x == a[Len(a)]
             y == Head(b)
         IN IF x[1] = y[1] /\ x[2] + x[3] = y[2]
              THEN SubSeq(a, 1, Len(a) - 1)
                      \o << <<x[1], x[2], x[3] + y[3]>> >> \o Tail(b)
              ELSE a \o b

\* the fragments a file holds whole
WholeFragments(content) ==
    {content[i][1] : i \in {j \in DOMAIN content :
                               /\ content[j][2] = 0
                               /\ content[j][3] = frag_size[content[j][1]]}}

\* the size in bytes of the buffer of the stream sanitize_open returns (line
\* 129): the file is opened with the default buffering, which takes the block
\* size of the file system
BufferSize == 4096

\* write(2) on the device: how many bytes of `data` a file holding `content`
\* takes when no file may grow past `limit` bytes (None: no limit)
Accepted(content, data, limit) ==
    IF limit = None THEN ByteLength(data)
    ELSE IF limit <= ByteLength(content) THEN 0
    ELSE IF ByteLength(data) <= limit - ByteLength(content)
           THEN ByteLength(data)
    ELSE limit - ByteLength(content)

\* the least number of bytes an io.BufferedWriter writes to the file without
\* passing through its buffer: more than a buffer up to CPython 3.12, a whole
\* buffer from CPython 3.13
DirectWriteSize(kind) ==
    IF kind = "bufferedwriter313" THEN BufferSize ELSE BufferSize + 1

\* dest_stream.write, line 82, when dest_stream is an io.BufferedWriter
\* (CPython 3): data that fits in the free part of the buffer and is not of
\* the size written directly stays there; otherwise the buffer is written
\* out, and then the data is written to the file for as long as a directly
\* written size of it remains; the rest is kept in the buffer.  The write
\* raises when the device refuses bytes of the buffer, or of the data while a
\* directly written size remains; what the device took stays.
BufferedWriterWrite(kind, content, buffer, data, limit) ==
    IF /\ ByteLength(buffer) + ByteLength(data) <= BufferSize
       /\ ByteLength(data) < DirectWriteSize(kind)
      THEN [file |-> content, buffer |-> Joined(buffer, data),
            raised |-> FALSE, short |-> FALSE]
      ELSE LET flushed == Accepted(content, buffer, limit)
               file1 == Joined(content, FirstBytes(buffer, flushed))
               direct == Accepted(file1, data, limit)
               file2 == Joined(file1, FirstBytes(data, direct))
               rest == RestBytes(data, direct)
           IN IF flushed < ByteLength(buffer)
                THEN [file |-> file1, buffer |-> RestBytes(buffer, flushed),
                      raised |-> TRUE, short |-> TRUE]
              ELSE IF ByteLength(data) < DirectWriteSize(kind)
                THEN [file |-> file1, buffer |-> data,
                      raised |-> FALSE, short |-> FALSE]
              ELSE IF direct = 0 \/ ByteLength(rest) >= DirectWriteSize(kind)
                THEN [file |-> file2, buffer |-> <<>>,
                      raised |-> TRUE, short |-> TRUE]
              ELSE [file |-> file2, buffer |-> rest,
                    raised |-> FALSE, short |-> direct < ByteLength(data)]

\* dest_stream.write, line 82, when dest_stream is a C stdio stream (the file
\* object of CPython 2): fwrite fills the free part of the buffer (a fresh
\* stream has none), writes the full buffer out, writes the whole blocks of
\* the remaining data to the file and keeps the tail in the buffer.  When the
\* device refuses bytes the write raises and what the stream held is dropped.
StdioWrite(content, buffer, fresh, data, limit) ==
    LET avail == IF fresh THEN 0 ELSE BufferSize - ByteLength(buffer)
        full == Joined(buffer, FirstBytes(data, avail))
        rest == RestBytes(data, avail)
        flushed == Accepted(content, full, limit)
        file1 == Joined(content, FirstBytes(full, flushed))
        blocks == ByteLength(rest) - (ByteLength(rest) % BufferSize)
        direct == Accepted(file1, FirstBytes(rest, blocks), limit)
        file2 == Joined(file1, FirstBytes(rest, direct))
    IN IF ByteLength(data) <= avail
         THEN [file |-> content, buffer |-> Joined(buffer, data),
               raised |-> FALSE, short |-> FALSE]
       ELSE IF flushed < ByteLength(full)
         THEN [file |-> file1, buffer |-> <<>>,
               raised |-> TRUE, short |-> TRUE]
       ELSE IF direct < blocks
         THEN [file |-> file2, buffer |-> <<>>,
               raised |-> TRUE, short |-> TRUE]
       ELSE [file |-> file2, buffer |-> RestBytes(rest, blocks),
             raised |-> FALSE, short |-> FALSE]

\* ctx['dest_stream'].write(frag_content), line 82
DestStreamWrite(kind, content, buffer, fresh, data, limit) ==
    IF kind = "stdio"
      THEN StdioWrite(content, buffer, fresh, data, limit)
      ELSE BufferedWriterWrite(kind, content, buffer, data, limit)

\* ctx['dest_stream'].close(), line 196, and the close of a stream the
\* session leaves open when the process ends: the buffer is written out; the
\* close raises when the device refuses bytes, and those are lost
DestStreamClose(content, buffer, limit) ==
    [file |-> Joined(content,
                     FirstBytes(buffer, Accepted(content, buffer, limit))),
     raised |-> Accepted(content, buffer, limit) < ByteLength(buffer)]

\* len(json.dumps(...)) in _write_ytdl_file, lines 59-63, for an index of one
\* digit
YtdlBytes == 43

\* _write_ytdl_file, lines 57-64: the close raises when the device does not
\* take the whole document; the sidecar then holds no document
WriteYtdlRaises(limit) == limit # None /\ limit < YtdlBytes

\* json.dumps in _write_ytdl_file: the document written to the sidecar
YtdlDocument(index) == [download |-> [current_fragment_index |-> index]]

\* json.loads(...)['download']['current_fragment_index'] in _read_ytdl_file
ReadYtdlFile(doc) == doc.download.current_fragment_index

\* the value of total_bytes_estimate while the key is not set
NoEstimate == <<0, 0>>

NoSnapshot == [status |-> "none", downloaded_bytes |-> None,
               total_bytes |-> None, fragment_index |-> None,
               keys |-> {}, total_bytes_estimate |-> NoEstimate]


\* ---- FragmentFD, piece by piece ------------------------------------------

\* a resume that always truncates the temp output
\* _prepare_frag_download, lines 110-116: 'ab' when the temp file exists
OpenMode(exists) == IF exists THEN "ab" ELSE "wb"

\* _prepare_frag_download, lines 111-116: the resume length
ResumeLen(exists, content) == IF exists THEN ByteLength(content) ELSE 0

\* only the first of the two assertions
ResumeStateOkFirstOnly(index, len) == index > 0 => len > 0

\* _prepare_frag_download, lines 124-127: the two assertions
ResumeStateOk(index, len) == IF index > 0 THEN len > 0 ELSE len = 0

\* sanitize_open(tmpfilename, open_mode), line 129: what the open leaves on disk
OpenedContent(mode, content) == IF mode = "wb" THEN <<>> ELSE content

\* _download_fragment, line 67: the index in '<tmp>-Frag<index>'
FragmentFilename(index) == index

\* an append that checkpoints sessions writing to '-' as well
DoYtdlFileLiveOnly(isLive, isStdout) == ~isLive

\* _append_fragment, line 84: the sidecar is rewritten unless the session is
\* live or writes to '-'
DoYtdlFile(isLive, isStdout) == ~(isLive \/ isStdout)

\* sanitize_open, line 129: the file on disk after the open; '-' is the
\* standard output and no file
OpenedExists(isStdout) == ~isStdout

\* an append that removes the fragment file whatever keep_fragments says
DoRemoveFragmentAlways(keep) == TRUE

\* _append_fragment, line 86: the fragment file is removed unless kept
DoRemoveFragment(keep) == ~keep

\* frag_progress_hook, line 174: a finished fragment advances the index
HookFinishedIndex(index) == index + 1

\* a hook that adds the bytes of every event in full
HookDownloadedBytesNoDelta(downloaded, now, prev) == downloaded + now

\* frag_progress_hook, lines 176 and 181: the delta since the previous event
HookDownloadedBytes(downloaded, now, prev) == downloaded + now - prev

\* the state dict handed to _hook_progress at line 189; its status is set
\* once, at line 144
StateSnapshot(downloaded, index, keys, estimate) ==
    [status |-> "downloading", downloaded_bytes |-> downloaded,
     total_bytes |-> None, fragment_index |-> index,
     keys |-> keys, total_bytes_estimate |-> estimate]

\* an event hook that returns early on no status
HookIgnoresNothing(status) == FALSE

\* frag_progress_hook, lines 161-162: the statuses the hook returns on at once
HookIgnores(status) == status \notin {"downloading", "finished"}

\* line 166: s.get('total_bytes') or 0
FragTotalBytes(total_bytes) == IF total_bytes = None THEN 0 ELSE total_bytes

\* lines 168-170: (complete + frag_total_bytes) / (index + 1) * total_frags
\* under true division (line 1), kept exact as <<numerator, denominator>>
EstimatedSize(complete, fragTotal, index, total) ==
    <<(complete + fragTotal) * total, index + 1>>

\* a hook that sets the estimate and the eta of live sessions as well
HookKeysLiveToo(keys, isLive, status) ==
    keys \cup {"total_bytes_estimate"}
         \cup (IF status = "downloading" THEN {"eta"} ELSE {})

\* lines 167-171 and 182-185: the optional keys of the state dict after an
\* event; a key once set stays in the dict
HookKeys(keys, isLive, status) ==
    IF isLive
      THEN keys
      ELSE keys \cup {"total_bytes_estimate"}
                \cup (IF status = "downloading" THEN {"eta"} ELSE {})

\* lines 167-171: the estimate in the state dict after an event
HookEstimate(previous, isLive, complete, fragTotal, index, total) ==
    IF isLive THEN previous
              ELSE EstimatedSize(complete, fragTotal, index, total)

\* a terminal snapshot without the total
FinishedSnapshotNoTotal(fsize) ==
    [status |-> "finished", downloaded_bytes |-> fsize,
     total_bytes |-> None, fragment_index |-> None,
     keys |-> {}, total_bytes_estimate |-> NoEstimate]

\* _finish_frag_download, lines 204-210: the terminal snapshot
FinishedSnapshot(fsize) ==
    [status |-> "finished", downloaded_bytes |-> fsize,
     total_bytes |-> fsize, fragment_index |-> None,
     keys |-> {}, total_bytes_estimate |-> NoEstimate]

\* a retry that reports nothing
ReportRetryFragmentSilent(log, index, cnt, retries) == log

\* report_retry_fragment, lines 36-39: one notice per call
ReportRetryFragment(log, index, cnt, retries) ==
    Append(log, [frag_index |-> index, count |-> cnt, retries |-> retries])

\* the per-fragment temp files without the one named `name`
WithoutFile(files, name) == {f \in files : f[1] # name}

\* the content of the per-fragment temp file named `name`
FileContent(files, name) == (CHOOSE f \in files : f[1] = name)[2]

\* ---- initial state --------------------------------------------------------

\* the fragment sizes of a manifest, in bytes: fragments larger than the
\* stream buffer (a = 0), or fragments that fit in the buffer one at a time
\* followed by a short last one (a = 1)
SizeProfiles ==
    {[k \in 0..(MaxFrags - 1) |->
         IF a = 0 THEN BufferSize + MaxFragSize
         ELSE IF k < MaxFrags - 1 THEN BufferSize - 1
         ELSE MaxFragSize] : a \in 0..1}

\* the file size limits of the device while a write runs (None: no limit):
\* no room at all, or room for the shortest fragment only
FileLimits == {None, 0, MaxFragSize}

\* what dest_stream can be: the file object of CPython 2 is a C stdio stream,
\* that of CPython 3 an io.BufferedWriter, whose rule for direct writes
\* changed with CPython 3.13
StreamKinds == {"stdio", "bufferedwriter", "bufferedwriter313"}

\* the byte counts the transport reports while a fragment of `size` bytes is
\* in flight: its first byte, and all of them
ProgressPoints(size) == {b \in {1} : b < size} \cup {size}

SessionInit ==
    /\ pc = "idle"
    /\ open_mode = "wb"
    /\ resume_len = 0
    /\ ctx_fragment_index = 0
    /\ dest_stream_open = FALSE
    /\ frag_index = 0
    /\ fragment_filename = None
    /\ frag_content = None
    /\ ctx_fragment_filename_sanitized = None
    /\ write_failed = FALSE
    /\ ctx_complete_frags_downloaded_bytes = 0
    /\ ctx_prev_frag_downloaded_bytes = 0
    /\ state_downloaded_bytes = 0
    /\ state_fragment_index = 0
    /\ snapshot = NoSnapshot
    /\ count = 0
    /\ attempts = 0
    /\ notices = <<>>
    /\ skipped = {}
    /\ appended = {}
    /\ start_index = 0
    /\ part_bytes = 0
    /\ stream_buffer = <<>>
    /\ stream_fresh = TRUE
    /\ frag_start_bytes = 0

Init ==
    /\ total_frags = MaxFrags
    /\ frag_size \in SizeProfiles
    /\ to_stdout \in BOOLEAN
    /\ live \in BOOLEAN
    /\ keep_fragments \in BOOLEAN
    /\ skip_unavailable_fragments \in BOOLEAN
    /\ fragment_retries \in {0, MaxRetries}
    \* for '-' dest_stream is the standard output of the process, not a stream
    \* opened on the temp file
    /\ stream_kind \in IF to_stdout THEN {"stdout"} ELSE StreamKinds
    /\ tmp_exists = FALSE
    /\ tmp_content = <<>>
    /\ ytdl_exists = FALSE
    /\ ytdl_file = YtdlDocument(0)
    /\ ytdl_empty = FALSE
    /\ frag_files = {}
    /\ final_exists = FALSE
    /\ final_content = <<>>
    /\ SessionInit
    /\ interrupts = 0
    /\ failures = 0
    /\ cut_inside = FALSE
    /\ io_fault = FALSE
    /\ any_skip = FALSE
    /\ last_init_error = "none"

\* ---- _prepare_frag_download and _start_frag_download ----------------------

\* lines 109-116: establish the open mode and the possible resume length
PrepareResumeLen ==
    /\ pc = "idle"
    /\ open_mode' = OpenMode(tmp_exists)
    /\ resume_len' = ResumeLen(tmp_exists, tmp_content)
    /\ pc' = "prepare_ytdl"
    /\ UNCHANGED <<config, disk, ctx_fragment_index, dest_stream_open, frag_index,
                   fetch, progress, retry, history>>
    /\ UNCHANGED track
    /\ UNCHANGED stream

\* an Init that takes an unreadable sidecar for no sidecar and starts over
PrepareYtdlFileStartOver ==
    /\ pc = "prepare_ytdl"
    /\ IF ytdl_exists /\ ~ytdl_empty
         THEN /\ ctx_fragment_index' = ReadYtdlFile(ytdl_file)
              /\ UNCHANGED <<ytdl_exists, ytdl_file, ytdl_empty>>
         ELSE /\ ctx_fragment_index' = 0
              /\ ytdl_exists' = TRUE
              /\ ytdl_file' = YtdlDocument(0)
              /\ ytdl_empty' = FALSE
    /\ pc' = "prepare_check"
    /\ UNCHANGED <<config, tmp_exists, tmp_content, frag_files, final_exists,
                   final_content, open_mode, resume_len, dest_stream_open,
                   frag_index, fetch, progress, retry, history>>
    /\ UNCHANGED track
    /\ UNCHANGED stream

\* lines 118-122: read the sidecar if there is one, else write one with index 0;
\* json.loads (line 54) raises on a sidecar that holds no document, and the
\* close of line 64 raises when the device does not take the document
PrepareYtdlFile ==
    /\ pc = "prepare_ytdl"
    /\ IF ytdl_exists
         THEN /\ IF ytdl_empty
                   THEN /\ pc' = "corrupt_checkpoint"
                        /\ UNCHANGED ctx_fragment_index
                   ELSE /\ ctx_fragment_index' = ReadYtdlFile(ytdl_file)
                        /\ pc' = "prepare_check"
              /\ UNCHANGED <<ytdl_exists, ytdl_file, ytdl_empty, io_fault, failures>>
         ELSE \E limit \in FileLimits :
                /\ ctx_fragment_index' = 0
                /\ ytdl_exists' = TRUE
                /\ IF WriteYtdlRaises(limit)
                     THEN /\ ytdl_file' = YtdlDocument(None)
                          /\ ytdl_empty' = TRUE
                          /\ io_fault' = TRUE
                          /\ failures < MaxFailures
                          /\ failures' = failures + 1
                          /\ pc' = "io_failed"
                     ELSE /\ ytdl_file' = YtdlDocument(0)
                          /\ ytdl_empty' = FALSE
                          /\ pc' = "prepare_check"
                          /\ UNCHANGED <<io_fault, failures>>
    /\ UNCHANGED <<config, tmp_exists, tmp_content, frag_files, final_exists,
                   final_content, open_mode, resume_len, dest_stream_open,
                   frag_index, fetch, progress, retry, interrupts,
                   cut_inside, any_skip, skipped, appended, start_index,
                   last_init_error>>
    /\ UNCHANGED track
    /\ UNCHANGED stream

\* an Init that opens the temp output before it checks the resume state
PrepareOpenBeforeCheck ==
    /\ pc = "prepare_check"
    /\ tmp_exists' = OpenedExists(to_stdout)
    /\ tmp_content' = OpenedContent(open_mode, tmp_content)
    /\ dest_stream_open' = TRUE
    /\ IF ResumeStateOk(ctx_fragment_index, resume_len)
         THEN /\ ctx_complete_frags_downloaded_bytes' = resume_len
              /\ pc' = "prepared"
         ELSE /\ pc' = "init_failed"
              /\ UNCHANGED ctx_complete_frags_downloaded_bytes
    /\ UNCHANGED <<config, ytdl_exists, ytdl_file, ytdl_empty, frag_files,
                   final_exists, final_content, open_mode, resume_len,
                   ctx_fragment_index, frag_index, fetch,
                   ctx_prev_frag_downloaded_bytes, state_downloaded_bytes,
                   state_fragment_index, snapshot, retry, history>>
    /\ UNCHANGED track
    /\ UNCHANGED stream

\* lines 124-137: the assertions, then the open of the temp output
PrepareOpen ==
    /\ pc = "prepare_check"
    /\ IF ResumeStateOk(ctx_fragment_index, resume_len)
         THEN /\ tmp_exists' = OpenedExists(to_stdout)
              /\ tmp_content' = OpenedContent(open_mode, tmp_content)
              /\ dest_stream_open' = TRUE
              /\ ctx_complete_frags_downloaded_bytes' = resume_len
              /\ pc' = "prepared"
         ELSE /\ pc' = "init_failed"
              /\ UNCHANGED <<tmp_exists, tmp_content, dest_stream_open,
                             ctx_complete_frags_downloaded_bytes>>
    /\ UNCHANGED <<config, ytdl_exists, ytdl_file, ytdl_empty, frag_files, final_exists,
                   final_content, open_mode, resume_len, ctx_fragment_index,
                   frag_index, fetch, ctx_prev_frag_downloaded_bytes,
                   state_downloaded_bytes, state_fragment_index, snapshot,
                   retry, history>>
    /\ UNCHANGED track
    /\ UNCHANGED stream

\* a start that forgets the resumed bytes and index
StartFragDownloadFromZero ==
    /\ pc = "prepared"
    /\ state_downloaded_bytes' = 0
    /\ state_fragment_index' = 0
    /\ ctx_prev_frag_downloaded_bytes' = 0
    /\ pc' = "started"
    /\ UNCHANGED <<config, disk, open_mode, resume_len, ctx_fragment_index,
                   dest_stream_open, frag_index, fetch,
                   ctx_complete_frags_downloaded_bytes, snapshot, retry, history>>
    /\ UNCHANGED track
    /\ UNCHANGED stream

\* _start_frag_download, lines 139-158: the progress state of the session
StartFragDownload ==
    /\ pc = "prepared"
    /\ state_downloaded_bytes' = ctx_complete_frags_downloaded_bytes
    /\ state_fragment_index' = ctx_fragment_index
    /\ ctx_prev_frag_downloaded_bytes' = 0
    /\ pc' = "started"
    /\ UNCHANGED <<config, disk, open_mode, resume_len, ctx_fragment_index,
                   dest_stream_open, frag_index, fetch,
                   ctx_complete_frags_downloaded_bytes, snapshot, retry, history>>
    /\ UNCHANGED track
    /\ UNCHANGED stream

\* ---- the control loop (specification 4.5) and the transport (4.3) ----------

\* FetchingFragment(i) starts at the checkpoint's index
EnterLoop ==
    /\ pc = "started"
    /\ frag_index' = ctx_fragment_index
    /\ start_index' = ctx_fragment_index
    /\ pc' = "loop"
    /\ UNCHANGED <<config, disk, open_mode, resume_len, ctx_fragment_index,
                   dest_stream_open, fetch, progress, retry, interrupts,
                   failures, cut_inside, io_fault, any_skip, skipped, appended,
                   last_init_error>>
    /\ frag_start_bytes' = state_downloaded_bytes
    /\ UNCHANGED part_bytes
    /\ UNCHANGED stream

\* _download_fragment, lines 66-71: name the fragment file, call the transport
DownloadFragment ==
    /\ pc = "loop"
    /\ frag_index < total_frags
    /\ fragment_filename' = FragmentFilename(ctx_fragment_index)
    /\ attempts' = attempts + 1
    /\ pc' = "fetching"
    /\ UNCHANGED <<config, disk, open_mode, resume_len, ctx_fragment_index,
                   dest_stream_open, frag_index, frag_content,
                   ctx_fragment_filename_sanitized, write_failed, progress,
                   count, notices, history>>
    /\ UNCHANGED track
    /\ UNCHANGED stream

\* frag_progress_hook, lines 160-189, status 'downloading': b bytes of the
\* fragment in flight have arrived (the transport continues a partial
\* fragment file, 'continuedl', so b grows over the attempts of a fragment)
HookDownloading ==
    /\ pc = "fetching"
    /\ \E b \in ProgressPoints(frag_size[frag_index]),
          total_bytes \in {frag_size[frag_index], None} :
         /\ b > part_bytes
         /\ part_bytes' = b
         /\ state_downloaded_bytes' =
              HookDownloadedBytes(state_downloaded_bytes, b,
                                  ctx_prev_frag_downloaded_bytes)
         /\ ctx_prev_frag_downloaded_bytes' = b
         /\ snapshot' =
              StateSnapshot(state_downloaded_bytes', state_fragment_index,
                            HookKeys(snapshot.keys, live, "downloading"),
                            HookEstimate(snapshot.total_bytes_estimate, live,
                                         ctx_complete_frags_downloaded_bytes,
                                         FragTotalBytes(total_bytes),
                                         state_fragment_index, total_frags))
    /\ UNCHANGED <<config, disk, session, fetch, retry, history,
                   ctx_complete_frags_downloaded_bytes, state_fragment_index,
                   frag_start_bytes>>
    /\ UNCHANGED stream

\* the transport completes: the fragment file is on disk and the hook runs with
\* status 'finished' (lines 173-178, 189); download() returns True (line 72)
HookFinished ==
    /\ pc = "fetching"
    /\ frag_files' = WithoutFile(frag_files, fragment_filename)
                        \cup {<<fragment_filename, frag_index>>}
    /\ state_fragment_index' = HookFinishedIndex(state_fragment_index)
    /\ ctx_fragment_index' = state_fragment_index'
    /\ state_downloaded_bytes' =
         HookDownloadedBytes(state_downloaded_bytes, frag_size[frag_index],
                             ctx_prev_frag_downloaded_bytes)
    /\ ctx_complete_frags_downloaded_bytes' = state_downloaded_bytes'
    /\ ctx_prev_frag_downloaded_bytes' = 0
    /\ snapshot' =
         StateSnapshot(state_downloaded_bytes', state_fragment_index',
                       HookKeys(snapshot.keys, live, "finished"),
                       HookEstimate(snapshot.total_bytes_estimate, live,
                                    ctx_complete_frags_downloaded_bytes,
                                    FragTotalBytes(frag_size[frag_index]),
                                    state_fragment_index, total_frags))
    /\ part_bytes' = 0
    /\ UNCHANGED frag_start_bytes
    /\ pc' = "fetched"
    /\ UNCHANGED <<config, tmp_exists, tmp_content, ytdl_exists, ytdl_file, ytdl_empty,
                   final_exists, final_content, open_mode, resume_len,
                   dest_stream_open, frag_index, fetch, retry, history>>
    /\ UNCHANGED stream

\* _download_fragment, lines 74-78: read the fragment file back
ReadFragment ==
    /\ pc = "fetched"
    /\ frag_content' = FileContent(frag_files, fragment_filename)
    /\ ctx_fragment_filename_sanitized' = fragment_filename
    /\ pc' = "append_write"
    /\ UNCHANGED <<config, disk, open_mode, resume_len, ctx_fragment_index,
                   dest_stream_open, frag_index, fragment_filename, write_failed,
                   progress, retry, history>>
    /\ UNCHANGED track
    /\ UNCHANGED stream

\* the transport fails: it reports the failed attempt to its hooks with a
\* status of its own, which frag_progress_hook returns on (lines 161-162), and
\* download() returns False (lines 72-73)
FetchFailed ==
    /\ pc = "fetching"
    /\ failures < MaxFailures
    /\ failures' = failures + 1
    /\ IF HookIgnores("error")
         THEN UNCHANGED progress
         ELSE /\ snapshot' =
                   StateSnapshot(state_downloaded_bytes, state_fragment_index,
                                 HookKeys(snapshot.keys, live, "error"),
                                 HookEstimate(snapshot.total_bytes_estimate, live,
                                              ctx_complete_frags_downloaded_bytes,
                                              0, state_fragment_index,
                                              total_frags))
              /\ UNCHANGED <<ctx_complete_frags_downloaded_bytes,
                             ctx_prev_frag_downloaded_bytes,
                             state_downloaded_bytes, state_fragment_index>>
    /\ pc' = "fetch_failed"
    /\ UNCHANGED <<config, disk, open_mode, resume_len, ctx_fragment_index,
                   dest_stream_open, frag_index, fetch, retry,
                   interrupts, cut_inside, io_fault, any_skip, skipped, appended,
                   start_index, last_init_error>>
    /\ UNCHANGED track
    /\ UNCHANGED stream

\* RetryingFragment: the retry budget is not used up; one retry notice
RetryFragment ==
    /\ pc = "fetch_failed"
    /\ count < fragment_retries
    /\ count' = count + 1
    /\ notices' = ReportRetryFragment(notices, frag_index, count', fragment_retries)
    /\ pc' = "loop"
    /\ UNCHANGED <<config, disk, open_mode, resume_len, ctx_fragment_index,
                   dest_stream_open, frag_index, fetch, progress, attempts, history>>
    /\ UNCHANGED track
    /\ UNCHANGED stream

\* SkippingFragment: the loop moves on to the next fragment, nothing is
\* appended or checkpointed.  ctx['fragment_index'] is assigned at lines 54,
\* 118 and 175 only, so a skip leaves it as it is.
SkipFragment ==
    /\ pc = "fetch_failed"
    /\ count >= fragment_retries
    /\ skip_unavailable_fragments
    /\ skipped' = skipped \cup {frag_index}
    /\ any_skip' = TRUE
    /\ frag_index' = frag_index + 1
    /\ UNCHANGED ctx_fragment_index
    /\ count' = 0
    /\ attempts' = 0
    /\ notices' = <<>>
    /\ pc' = "loop"
    /\ UNCHANGED <<config, disk, open_mode, resume_len, dest_stream_open, fetch,
                   progress, interrupts, failures, cut_inside, io_fault, appended,
                   start_index, last_init_error>>
    /\ frag_start_bytes' = state_downloaded_bytes
    /\ part_bytes' = 0
    /\ UNCHANGED stream

\* Aborted: the fragment is unavailable and skipping is off
AbortUnavailable ==
    /\ pc = "fetch_failed"
    /\ count >= fragment_retries
    /\ ~skip_unavailable_fragments
    /\ pc' = "unavailable"
    /\ UNCHANGED <<config, disk, open_mode, resume_len, ctx_fragment_index,
                   dest_stream_open, frag_index, fetch, progress, retry, history>>
    /\ UNCHANGED track
    /\ UNCHANGED stream

\* ---- _append_fragment ------------------------------------------------------

\* line 82: write the fragment to dest_stream; the write raises when the
\* device refuses bytes the stream has to write out
WriteFragment ==
    /\ pc = "append_write"
    /\ IF to_stdout
         THEN /\ \/ /\ appended' = appended \cup {frag_content}
                    /\ UNCHANGED <<write_failed, io_fault>>
                 \/ /\ write_failed' = TRUE
                    /\ io_fault' = TRUE
                    /\ UNCHANGED appended
              /\ UNCHANGED <<tmp_content, stream_buffer, failures>>
         ELSE \E limit \in FileLimits :
                LET w == DestStreamWrite(stream_kind, tmp_content, stream_buffer,
                                         stream_fresh, FragmentBytes(frag_content),
                                         limit)
                IN /\ tmp_content' = w.file
                   /\ stream_buffer' = w.buffer
                   /\ write_failed' = w.raised
                   /\ io_fault' = (io_fault \/ w.short)
                   /\ w.short => failures < MaxFailures
                   /\ failures' = IF w.short THEN failures + 1 ELSE failures
                   /\ appended' = IF w.raised THEN appended
                                  ELSE appended \cup {frag_content}
    /\ stream_fresh' = FALSE
    /\ pc' = "append_ytdl"
    /\ UNCHANGED <<config, tmp_exists, ytdl_exists, ytdl_file, ytdl_empty, frag_files,
                   final_exists, final_content, open_mode, resume_len,
                   ctx_fragment_index, dest_stream_open, frag_index,
                   fragment_filename, frag_content,
                   ctx_fragment_filename_sanitized, progress, retry, interrupts,
                   cut_inside, any_skip, skipped, start_index,
                   last_init_error>>
    /\ UNCHANGED track

\* lines 83-85 and _write_ytdl_file, lines 57-64: in the finally block, rewrite
\* the sidecar with ctx['fragment_index'].  When the close of line 64 raises,
\* the sidecar is left without a document and the error leaves
\* _append_fragment at once: lines 86-88 do not run
WriteYtdlFile ==
    /\ pc = "append_ytdl"
    /\ IF DoYtdlFile(live, to_stdout)
         THEN \E limit \in FileLimits :
                /\ ytdl_exists' = TRUE
                /\ IF WriteYtdlRaises(limit)
                     THEN /\ ytdl_file' = YtdlDocument(None)
                          /\ ytdl_empty' = TRUE
                          /\ io_fault' = TRUE
                          /\ failures < MaxFailures
                          /\ failures' = failures + 1
                          /\ pc' = "io_failed"
                     ELSE /\ ytdl_file' = YtdlDocument(ctx_fragment_index)
                          /\ ytdl_empty' = FALSE
                          /\ pc' = "append_remove"
                          /\ UNCHANGED <<io_fault, failures>>
         ELSE /\ pc' = "append_remove"
              /\ UNCHANGED <<ytdl_exists, ytdl_file, ytdl_empty, io_fault, failures>>
    /\ UNCHANGED <<config, tmp_exists, tmp_content, frag_files, final_exists,
                   final_content, open_mode, resume_len, ctx_fragment_index,
                   dest_stream_open, frag_index, fetch, progress, retry,
                   interrupts, cut_inside, any_skip, skipped, appended,
                   start_index, last_init_error>>
    /\ UNCHANGED track
    /\ UNCHANGED stream

\* lines 86-88: remove the fragment file unless kept; then the error of the
\* write, if any, leaves the method
RemoveFragment ==
    /\ pc = "append_remove"
    /\ frag_files' = IF DoRemoveFragment(keep_fragments)
                       THEN WithoutFile(frag_files, ctx_fragment_filename_sanitized)
                       ELSE frag_files
    /\ ctx_fragment_filename_sanitized' = None
    /\ pc' = IF write_failed THEN "io_failed" ELSE "appended"
    /\ UNCHANGED <<config, tmp_exists, tmp_content, ytdl_exists, ytdl_file, ytdl_empty,
                   final_exists, final_content, open_mode, resume_len,
                   ctx_fragment_index, dest_stream_open, frag_index,
                   fragment_filename, frag_content, write_failed, progress,
                   retry, history>>
    /\ UNCHANGED track
    /\ UNCHANGED stream

\* the control loop moves to the next fragment
NextFragment ==
    /\ pc = "appended"
    /\ frag_index' = frag_index + 1
    /\ count' = 0
    /\ attempts' = 0
    /\ notices' = <<>>
    /\ pc' = "loop"
    /\ UNCHANGED <<config, disk, open_mode, resume_len, ctx_fragment_index,
                   dest_stream_open, fetch, progress, history>>
    /\ frag_start_bytes' = state_downloaded_bytes
    /\ part_bytes' = 0
    /\ UNCHANGED stream

\* ---- _finish_frag_download ---------------------------------------------------

\* Finalizing: all fragments of a finite stream are done, or a live stream is
\* stopped; line 196 closes the output, which writes the buffer out.  When the
\* device refuses bytes the close raises and leaves _finish_frag_download; the
\* close of the standard output ('-') raises when its reader refuses the bytes
FinishClose ==
    /\ pc = "loop"
    /\ frag_index = total_frags \/ live
    /\ dest_stream_open' = FALSE
    /\ IF to_stdout
         THEN \E raised \in BOOLEAN :
                /\ io_fault' = (io_fault \/ raised)
                /\ pc' = IF raised THEN "finish_failed" ELSE "finish_ytdl"
                /\ UNCHANGED <<tmp_content, failures>>
         ELSE \E limit \in FileLimits :
                LET c == DestStreamClose(tmp_content, stream_buffer, limit)
                IN /\ tmp_content' = c.file
                   /\ io_fault' = (io_fault \/ c.raised)
                   /\ c.raised => failures < MaxFailures
                   /\ failures' = IF c.raised THEN failures + 1 ELSE failures
                   /\ pc' = IF c.raised THEN "finish_failed" ELSE "finish_ytdl"
    /\ stream_buffer' = <<>>
    /\ UNCHANGED stream_fresh
    /\ UNCHANGED <<config, tmp_exists, ytdl_exists, ytdl_file, ytdl_empty,
                   frag_files, final_exists, final_content, open_mode,
                   resume_len, ctx_fragment_index, frag_index, fetch, progress,
                   retry, interrupts, cut_inside, any_skip, skipped,
                   appended, start_index, last_init_error>>
    /\ UNCHANGED track

\* lines 197-199: remove the sidecar if it is there
FinishRemoveYtdl ==
    /\ pc = "finish_ytdl"
    /\ ytdl_exists' = FALSE
    /\ ytdl_empty' = FALSE
    /\ pc' = "finish_rename"
    /\ UNCHANGED <<config, tmp_exists, tmp_content, ytdl_file, frag_files,
                   final_exists, final_content, open_mode, resume_len,
                   ctx_fragment_index, dest_stream_open, frag_index, fetch,
                   progress, retry, history>>
    /\ UNCHANGED track
    /\ UNCHANGED stream

\* lines 200-201: rename the temp output to the final name
FinishRename ==
    /\ pc = "finish_rename"
    /\ IF to_stdout
         THEN UNCHANGED <<final_exists, final_content, tmp_exists, tmp_content>>
         ELSE /\ final_exists' = TRUE
              /\ final_content' = tmp_content
              /\ tmp_exists' = FALSE
              /\ tmp_content' = <<>>
    /\ pc' = "finish_report"
    /\ UNCHANGED <<config, ytdl_exists, ytdl_file, ytdl_empty, frag_files, open_mode,
                   resume_len, ctx_fragment_index, dest_stream_open, frag_index,
                   fetch, progress, retry, history>>
    /\ UNCHANGED track
    /\ UNCHANGED stream

\* lines 202-210: the size of the final file, in the terminal snapshot;
\* os.path.getsize raises when there is no such file (the output is '-')
FinishReport ==
    /\ pc = "finish_report"
    /\ IF final_exists
         THEN /\ snapshot' = FinishedSnapshot(ByteLength(final_content))
              /\ pc' = "done"
         ELSE /\ pc' = "finish_failed"
              /\ UNCHANGED snapshot
    /\ UNCHANGED <<config, disk, open_mode, resume_len, ctx_fragment_index,
                   dest_stream_open, frag_index, fetch,
                   ctx_complete_frags_downloaded_bytes,
                   ctx_prev_frag_downloaded_bytes, state_downloaded_bytes,
                   state_fragment_index, retry, history>>
    /\ UNCHANGED track
    /\ UNCHANGED stream

\* ---- interruption ---------------------------------------------------------------

\* the points inside _append_fragment (after line 82, after line 85) and
\* inside _finish_frag_download (after lines 196, 199, 201)
InsideAppendOrFinish ==
    {"append_ytdl", "append_remove", "finish_ytdl", "finish_rename",
     "finish_report"}

\* the session is gone: ctx, the progress state and the loop's counters
SessionLost ==
    /\ pc' = "idle"
    /\ open_mode' = "wb"
    /\ resume_len' = 0
    /\ ctx_fragment_index' = 0
    /\ dest_stream_open' = FALSE
    /\ frag_index' = 0
    /\ fragment_filename' = None
    /\ frag_content' = None
    /\ ctx_fragment_filename_sanitized' = None
    /\ write_failed' = FALSE
    /\ ctx_complete_frags_downloaded_bytes' = 0
    /\ ctx_prev_frag_downloaded_bytes' = 0
    /\ state_downloaded_bytes' = 0
    /\ state_fragment_index' = 0
    /\ snapshot' = NoSnapshot
    /\ count' = 0
    /\ attempts' = 0
    /\ notices' = <<>>
    /\ skipped' = {}
    /\ appended' = {}
    /\ start_index' = 0
    /\ part_bytes' = 0
    /\ frag_start_bytes' = 0
    /\ stream_buffer' = <<>>
    /\ stream_fresh' = TRUE

\* the ends of a session whose Init failed
InitErrors == {"init_failed", "corrupt_checkpoint"}

\* the process is killed and started again later: the disk stays, the session
\* is gone and with it what the stream still held in its buffer
Interrupt ==
    /\ pc \notin {"idle", "done"}
    /\ interrupts < MaxInterrupts
    /\ interrupts' = interrupts + 1
    /\ cut_inside' = (cut_inside \/ pc \in InsideAppendOrFinish)
    /\ last_init_error' = IF pc \in InitErrors THEN pc ELSE last_init_error
    /\ SessionLost
    /\ UNCHANGED <<config, disk, failures, io_fault, any_skip>>

\* the process is killed inside _write_ytdl_file, after the open for writing
\* (line 58) has truncated the sidecar and before the document is written
InterruptInWriteYtdl ==
    /\ \/ pc = "prepare_ytdl" /\ ~ytdl_exists
       \/ pc = "append_ytdl" /\ DoYtdlFile(live, to_stdout)
    /\ interrupts < MaxInterrupts
    /\ interrupts' = interrupts + 1
    /\ cut_inside' = TRUE
    /\ ytdl_exists' = TRUE
    /\ ytdl_empty' = TRUE
    /\ ytdl_file' = YtdlDocument(None)
    /\ SessionLost
    /\ UNCHANGED <<config, tmp_exists, tmp_content, frag_files,
                   final_exists, final_content, failures, io_fault, any_skip,
                   last_init_error>>

\* the command is run again after an Init that failed
RunAgainAfterInitError ==
    /\ pc \in InitErrors
    /\ last_init_error' = pc
    /\ SessionLost
    /\ UNCHANGED <<config, disk, interrupts, failures, cut_inside, io_fault, any_skip>>

\* the ends of a session that was aborted after its Init
AbortedStates == {"unavailable", "io_failed", "finish_failed"}

\* the command is run again after a session that was aborted: the process
\* has ended by itself, and the stream, never closed by the session, was
\* closed when it was finalized; the bytes the device refuses then are lost
RunAgainAfterAbort ==
    /\ pc \in AbortedStates
    /\ interrupts < MaxInterrupts
    /\ interrupts' = interrupts + 1
    /\ \E limit \in FileLimits :
         LET c == DestStreamClose(tmp_content, stream_buffer, limit)
         IN /\ tmp_content' = c.file
            /\ io_fault' = (io_fault \/ c.raised)
            /\ c.raised => failures < MaxFailures
            /\ failures' = IF c.raised THEN failures + 1 ELSE failures
    /\ SessionLost
    /\ UNCHANGED <<config, tmp_exists, ytdl_exists, ytdl_file, ytdl_empty,
                   frag_files, final_exists, final_content,
                   cut_inside, any_skip, last_init_error>>

Next ==
    \/ PrepareResumeLen
    \/ PrepareYtdlFile
    \/ PrepareOpen
    \/ StartFragDownload
    \/ EnterLoop
    \/ DownloadFragment
    \/ HookDownloading
    \/ HookFinished
    \/ ReadFragment
    \/ FetchFailed
    \/ RetryFragment
    \/ SkipFragment
    \/ AbortUnavailable
    \/ WriteFragment
    \/ WriteYtdlFile
    \/ RemoveFragment
    \/ NextFragment
    \/ FinishClose
    \/ FinishRemoveYtdl
    \/ FinishRename
    \/ FinishReport
    \/ Interrupt
    \/ InterruptInWriteYtdl
    \/ RunAgainAfterInitError
    \/ RunAgainAfterAbort

Spec == Init /\ [][Next]_vars

\* ---- what the next _prepare_frag_download finds on disk ----------------------

\* the index lines 118-122 give ctx['fragment_index']
CheckpointOnDisk ==
    IF ~ytdl_exists THEN 0
    ELSE IF ytdl_empty THEN None
    ELSE ReadYtdlFile(ytdl_file)

\* the resume length lines 111-116 compute
LengthOnDisk == ResumeLen(tmp_exists, tmp_content)

\* fragments 0..total_frags-1 in order: the output of an uninterrupted session
AllFragments == [k \in 1..total_frags |-> <<k - 1, 0, frag_size[k - 1]>>]

\* the size of that output
TotalSize == ByteLength(AllFragments)

\* ---- properties ---------------------------------------------------------------

\* C1: whenever a finite session is interrupted and no write has raised, the
\* disk the next Init finds has either index 0 and an empty temp output, or a
\* positive index and a non-empty temp output.
C1_InterruptionKeepsInvariant ==
    (pc = "idle" /\ ~live /\ ~io_fault) =>
        \/ CheckpointOnDisk = 0 /\ LengthOnDisk = 0
        \/ CheckpointOnDisk > 0 /\ LengthOnDisk > 0

\* C2: a finite session interrupted between appends (not inside one, not
\* inside the finish), with no write error and no skipped fragment, and then
\* resumed to completion leaves fragments 0..N-1 in order as the final output.
C2_ResumeCorrect ==
    (pc = "done" /\ ~live /\ ~cut_inside /\ ~io_fault /\ ~any_skip) =>
        final_exists /\ final_content = AllFragments

\* C3: in a finite session the index in the sidecar never exceeds the number
\* of fragments written to the output, also after a write has raised.
C3_CheckpointNotAhead ==
    (~live /\ ytdl_exists) =>
        ReadYtdlFile(ytdl_file) <= Cardinality(WholeFragments(tmp_content))

\* C4: Init takes the size of an existing temp output as resume length and
\* opens it for append, else truncates with resume length 0; it fails exactly
\* when the index is positive with resume length 0, or 0 with a positive
\* resume length.
C4_InitCheck ==
    [][(pc = "prepare_check" /\ pc' # "idle") =>
        /\ (open_mode = "ab") <=> tmp_exists
        /\ resume_len = (IF tmp_exists THEN ByteLength(tmp_content) ELSE 0)
        /\ (pc' = "init_failed") <=>
              \/ ctx_fragment_index > 0 /\ resume_len = 0
              \/ ctx_fragment_index = 0 /\ resume_len > 0
        /\ (pc' = "prepared") <=> (pc' # "init_failed")
        /\ (pc' = "prepared") =>
              /\ tmp_exists' = OpenedExists(to_stdout)
              /\ dest_stream_open'
              /\ tmp_content' = (IF tmp_exists THEN tmp_content ELSE <<>>)
        /\ (pc' = "init_failed") => UNCHANGED disk
      ]_vars

C4_Witness ==
    /\ pc = "init_failed"
    /\ ctx_fragment_index > 0
    /\ resume_len = 0

\* C5: the sidecar is never gone while the output exists only under its temp
\* name.
C5_SidecarClearedAfterRename ==
    (tmp_exists /\ ~final_exists) => ytdl_exists

\* C6: after each successful append of a finite session that writes to a file
\* the sidecar holds ctx['fragment_index'], which is the number of fragments
\* appended so far and the next index to fetch.
C6_SidecarTracksEveryAppend ==
    (pc = "appended" /\ ~live /\ ~to_stdout) =>
        /\ ytdl_exists
        /\ ReadYtdlFile(ytdl_file) = ctx_fragment_index
        /\ ctx_fragment_index = start_index + Cardinality(appended)
        /\ ctx_fragment_index = frag_index + 1

\* C7: after a session that ran Init, fetched and appended every fragment and
\* finished, the sidecar is gone, and the per-fragment temp files are gone
\* unless keep_fragments, when the file of every fetched fragment is there.
C7_FinalizationCleanup ==
    (pc = "done" /\ interrupts = 0 /\ skipped = {}) =>
        /\ ~ytdl_exists
        /\ IF keep_fragments
             THEN frag_files = {<<FragmentFilename(k), k>> : k \in appended}
             ELSE frag_files = {}

C7_Witness ==
    /\ pc = "done" /\ interrupts = 0 /\ skipped = {}
    /\ keep_fragments
    /\ Cardinality(frag_files) = total_frags
    /\ ~ytdl_exists

\* C8: a finite session without failures ends with an output of length
\* s_0 + ... + s_(N-1) and a last snapshot 'finished' whose downloaded_bytes
\* and total_bytes are that length; no snapshot follows it.
C8_TerminalSnapshot ==
    /\ (pc = "done" /\ ~live /\ interrupts = 0 /\ ~io_fault /\ ~any_skip) =>
          /\ ByteLength(final_content) = TotalSize
          /\ snapshot.status = "finished"
          /\ snapshot.downloaded_bytes = TotalSize
          /\ snapshot.total_bytes = TotalSize
    /\ (snapshot.status = "finished") => pc = "done"

C8_Witness ==
    /\ pc = "done" /\ ~live /\ interrupts = 0 /\ failures = 0
    /\ snapshot.status = "finished"
    /\ snapshot.total_bytes = TotalSize
    /\ TotalSize > total_frags

\* the fragments of the manifest in order, without those in `gone`
AllFragmentsExcept(gone) ==
    SelectSeq(AllFragments, LAMBDA piece : piece[1] \notin gone)

\* C9: with skip_unavailable_fragments, a finite session in which a fragment
\* failed for good is not aborted, ends with every other fragment in the
\* output in index order, and ends with fragment index total_frags.
C9_SkipSemantics ==
    /\ skip_unavailable_fragments => pc # "unavailable"
    /\ (pc = "done" /\ ~live /\ interrupts = 0 /\ ~io_fault /\ skipped # {}) =>
          /\ final_content = AllFragmentsExcept(skipped)
          /\ ctx_fragment_index = total_frags

\* C10: a fragment whose fetch always fails is attempted fragment_retries + 1
\* times before it is classified unavailable, and every failed attempt that is
\* followed by another attempt has exactly one retry notice.
C10_RetryBound ==
    /\ (pc = "fetch_failed" /\ count >= fragment_retries) =>
          /\ attempts = fragment_retries + 1
          /\ Len(notices) = fragment_retries
    /\ (pc \in {"fetching", "fetched"}) =>
          /\ attempts <= fragment_retries + 1
          /\ Len(notices) = attempts - 1
    /\ \A j \in 1..Len(notices) :
          notices[j] = [frag_index |-> frag_index, count |-> j,
                        retries |-> fragment_retries]

C10_Witness ==
    /\ pc = "fetch_failed"
    /\ fragment_retries > 0
    /\ count = fragment_retries
    /\ attempts = fragment_retries + 1
    /\ Len(notices) = fragment_retries

\* C12: after a successful Init, ctx['fragment_index'] and the progress
\* state's fragment_index are the index in the sidecar, fetching starts there,
\* and the state's downloaded_bytes and complete_frags_downloaded_bytes are
\* the resume length, the size of the temp output at Init.
C12_SessionStartState ==
    /\ (pc = "started") =>
          /\ ytdl_exists
          /\ ctx_fragment_index = ReadYtdlFile(ytdl_file)
          /\ state_fragment_index = ReadYtdlFile(ytdl_file)
          /\ resume_len = ByteLength(tmp_content)
          /\ state_downloaded_bytes = resume_len
          /\ ctx_complete_frags_downloaded_bytes = resume_len
    /\ (pc = "loop" /\ attempts = 0 /\ appended = {} /\ skipped = {}) =>
          /\ frag_index = CheckpointOnDisk
          /\ start_index = CheckpointOnDisk

C12_Witness ==
    /\ pc = "started"
    /\ interrupts > 0
    /\ ctx_fragment_index > 0
    /\ state_fragment_index = ctx_fragment_index
    /\ state_downloaded_bytes > 0
    /\ state_downloaded_bytes = resume_len

\* C13: with no sidecar Init starts fresh at index 0, without error when the
\* device takes the write, and creates a sidecar holding 0; with a sidecar
\* that cannot be parsed Init fails instead of starting from 0, the temp
\* output is neither opened nor truncated and the sidecar is not overwritten.
C13_CheckpointLoad ==
    [][/\ (pc = "prepare_ytdl" /\ pc' \notin {"idle", "io_failed"}) =>
            IF ~ytdl_exists
              THEN /\ pc' = "prepare_check"
                   /\ ctx_fragment_index' = 0
                   /\ ytdl_exists' /\ ~ytdl_empty'
                   /\ ReadYtdlFile(ytdl_file') = 0
                   /\ UNCHANGED <<tmp_exists, tmp_content>>
              ELSE IF ytdl_empty
                     THEN /\ pc' = "corrupt_checkpoint"
                          /\ UNCHANGED disk
                          /\ ~dest_stream_open'
                     ELSE /\ pc' = "prepare_check"
                          /\ UNCHANGED disk
       /\ (pc = "corrupt_checkpoint") =>
            /\ UNCHANGED disk
            /\ pc' \in {"corrupt_checkpoint", "idle"}
      ]_vars

C13_Witness ==
    /\ pc = "corrupt_checkpoint"
    /\ ytdl_exists /\ ytdl_empty
    /\ tmp_exists
    /\ Len(tmp_content) > 0
    /\ ~dest_stream_open

\* C19: when Init ends in the consistency error the temp output is as it was
\* (not opened, not truncated), and Init run again on that disk fails again.
C19_FailedInitPreserves ==
    /\ (pc = "init_failed") =>
          /\ ~dest_stream_open
          /\ (open_mode = "ab") = tmp_exists
          /\ resume_len = ResumeLen(tmp_exists, tmp_content)
          /\ \/ CheckpointOnDisk > 0 /\ LengthOnDisk = 0
             \/ CheckpointOnDisk = 0 /\ LengthOnDisk > 0
    /\ (last_init_error = "init_failed") =>
          pc \in {"idle", "prepare_ytdl", "prepare_check", "init_failed"}

C19_Witness ==
    /\ pc = "init_failed"
    /\ last_init_error = "init_failed"
    /\ tmp_exists
    /\ Len(tmp_content) > 0
    /\ CheckpointOnDisk = 0

\* a step of frag_progress_hook that gets past the early return (line 162)
HookStep ==
    /\ pc = "fetching"
    /\ \/ pc' = "fetched"
       \/ pc' = "fetching" /\ part_bytes' > part_bytes

\* C14: after the 'finished' event of a fragment reporting T bytes, the
\* cumulative downloaded_bytes is its value at the start of that fragment plus
\* T, the fragment index has advanced by one, and the delta tracker is 0.
C14_NoDoubleCounting ==
    (pc = "fetched") =>
        /\ state_downloaded_bytes = frag_start_bytes + frag_size[frag_index]
        /\ state_fragment_index = start_index + Cardinality(appended) + 1
        /\ ctx_prev_frag_downloaded_bytes = 0

\* C15: no snapshot of a live session contains total_bytes_estimate or eta;
\* every snapshot the progress hook emits in a finite session contains
\* total_bytes_estimate.
C15_LiveHasNoEstimate ==
    /\ live => snapshot.keys \cap {"total_bytes_estimate", "eta"} = {}
    /\ (~live /\ snapshot.status = "downloading") =>
          "total_bytes_estimate" \in snapshot.keys

C15_Witness ==
    /\ live
    /\ pc = "fetching"
    /\ snapshot.status = "downloading"
    /\ state_fragment_index > 0
    /\ ctx_prev_frag_downloaded_bytes > 0

\* C16: on every progress event of a finite session the estimate is
\* (completed bytes + the fragment's total_bytes) / (index before the event's
\* advance + 1) * total_frags; when all fragments have one size S and the
\* event reports total_bytes = S, the estimate is S * total_frags, in fresh
\* and in resumed sessions.
C16_TotalSizeEstimate ==
    [][(HookStep /\ ~live) =>
         \E t \in {frag_size[frag_index], 0} :
            /\ snapshot'.total_bytes_estimate =
                 EstimatedSize(ctx_complete_frags_downloaded_bytes, t,
                               state_fragment_index, total_frags)
            /\ ((\A k \in DOMAIN frag_size : frag_size[k] = t) =>
                  snapshot'.total_bytes_estimate[1] =
                     t * total_frags * snapshot'.total_bytes_estimate[2])
      ]_vars

\* C17: after _start_frag_download and after every progress-hook invocation
\* state['downloaded_bytes'] = ctx['complete_frags_downloaded_bytes'] +
\* ctx['prev_frag_downloaded_bytes'] and state['fragment_index'] =
\* ctx['fragment_index'].
C17_ProgressAccounting ==
    /\ []((pc = "started") =>
             /\ state_downloaded_bytes =
                  ctx_complete_frags_downloaded_bytes
                     + ctx_prev_frag_downloaded_bytes
             /\ state_fragment_index = ctx_fragment_index)
    /\ [][HookStep =>
             /\ state_downloaded_bytes' =
                  ctx_complete_frags_downloaded_bytes'
                     + ctx_prev_frag_downloaded_bytes'
             /\ state_fragment_index' = ctx_fragment_index'
         ]_vars

C17_Witness ==
    /\ pc = "fetching"
    /\ skipped # {}
    /\ snapshot.status = "downloading"
    /\ ctx_prev_frag_downloaded_bytes > 0
    /\ state_fragment_index > 0
    /\ state_fragment_index = ctx_fragment_index
    /\ state_downloaded_bytes =
         ctx_complete_frags_downloaded_bytes + ctx_prev_frag_downloaded_bytes

\* C20: a progress-hook invocation whose status is neither 'downloading' nor
\* 'finished' changes neither the progress state nor ctx and emits no snapshot.
C20_UnknownEventsIgnored ==
    [][(pc = "fetching" /\ pc' = "fetch_failed") =>
          UNCHANGED <<progress, ctx_fragment_index>>]_vars

C20_Witness ==
    /\ pc = "fetch_failed"
    /\ snapshot.status = "downloading"
    /\ ctx_prev_frag_downloaded_bytes > 0
    /\ state_downloaded_bytes >
          ctx_complete_frags_downloaded_bytes

\* C11: in a finite session that writes to a file fragments are appended in
\* strictly increasing order, the fetch of a fragment starts only after its
\* predecessor was written and the sidecar holds the advanced index, and the
\* fragment file of a fetch is named after the fragment being fetched.
C11_StrictOrdering ==
    /\ (pc = "append_ytdl" /\ ~write_failed) =>
          \A k \in appended \ {frag_content} : k < frag_content
    /\ (~live /\ ~to_stdout /\ pc = "fetching") =>
          /\ (frag_index > start_index /\ (frag_index - 1) \notin skipped) =>
                /\ (frag_index - 1) \in appended
                /\ ytdl_exists
                /\ ReadYtdlFile(ytdl_file) = frag_index
          /\ fragment_filename = FragmentFilename(frag_index)

\* C18: in a session that is live or writes to '-' an append leaves the
\* sidecar as it is, so from Init to the finish the sidecar keeps its index (0
\* in a fresh session); Init still creates the sidecar and the finish still
\* removes it.
C18_NoCheckpointOnAppend ==
    [][(live \/ to_stdout) =>
         /\ (pc = "append_ytdl" /\ pc' = "append_remove") =>
               UNCHANGED <<ytdl_exists, ytdl_file, ytdl_empty>>
         /\ (pc \notin {"prepare_ytdl", "finish_ytdl"} /\ pc' # "idle") =>
               UNCHANGED <<ytdl_exists, ytdl_file, ytdl_empty>>
         /\ (pc = "prepare_ytdl" /\ ~ytdl_exists /\ pc' = "prepare_check") =>
               /\ ytdl_exists'
               /\ ReadYtdlFile(ytdl_file') = 0
         /\ (pc = "appended" /\ interrupts = 0) =>
               /\ ytdl_exists
               /\ ReadYtdlFile(ytdl_file) = 0
         /\ (pc = "finish_ytdl" /\ pc' = "finish_rename") => ~ytdl_exists'
      ]_vars

C18_Witness ==
    /\ to_stdout /\ ~live
    /\ pc = "finish_failed"
    /\ Cardinality(appended) = total_frags
    /\ ~ytdl_exists
    /\ ~tmp_exists

=============================================================================
